---- MODULE Spec2Model ----
(***************************************************************************)
(* Model of brat's tools/anntoconll.py (standoff -> CoNLL) and             *)
(* tools/conllpos_to_standoff.py (CoNLL POS -> standoff).                  *)
(*                                                                         *)
(* Text is a sequence of one-character strings.  Each pure function of the *)
(* source is an operator computed the way the code computes it; each       *)
(* function has a specification of its own whose Init draws the inputs     *)
(* and whose actions apply it.  The variables of the other functions stay  *)
(* at their idle values in such a specification.                           *)
(***************************************************************************)
EXTENDS Integers, Sequences, FiniteSets, TLC

VARIABLES
    \* eliminate_overlaps (anntoconll.py)
    textbounds,     \* the argument: a list of Textbound
    t1i, t2i,       \* positions of the outer and the inner loop
    eliminate,      \* the dict `eliminate`: the set of its keys (span values)
    firstMarked,    \* the key inserted first into `eliminate` (<<>>: none yet)
    kept,           \* the returned list
    pcO,            \* "idle" | "loop" | "done"
    \* strip_labels / attach_labels (anntoconll.py)
    conllLines,     \* the tagged lines given to strip_labels
    stripOut,       \* what strip_labels returned: [labels, stripped]
    attachOut,      \* what attach_labels returned: [ok, lines]
    pcL,            \* "idle" | "start" | "stripped" | "attached" | "assert"
    \* parse_textbounds under process_files (anntoconll.py)
    annLines,       \* the lines of the annotation file
    optAttributes,  \* options.attributes
    parseOut,       \* the outcome of parse_textbounds: [kind, textbounds, line]
    pcP,            \* "idle" | "start" | "returned" | "raised" | "fatal" | "swallowed"
    \* text_to_conll (anntoconll.py)
    docText,        \* the characters of the text file
    preprocess,     \* options.preprocess: "none" | "regex" | "syntok"
    breaks,         \* regex: the blanks the sentence splitter turns into newlines
    paragraphs,     \* syntok: what segmenter.analyze(document) yields
    sentences,      \* the list `sentences` of token lists
    outLines,       \* the list `lines`: rows [tag, start, end, text] and [] rows
    pcT,            \* "idle" | "start" | "done"
    \* relabel (anntoconll.py)
    rlLines,        \* the rows given to relabel, all tagged O
    annotations,    \* the spans given to relabel
    singleclass,    \* options.singleclass (None: not set)
    rlTagged,       \* the rows after the tagging loop
    rlOut,          \* the rows relabel returns
    pcR,            \* "idle" | "start" | "tagged" | "done"
    \* main of conllpos_to_standoff.py, for one document
    mPhase,         \* the document: where its cycle of sentence lengths starts
    sentNo,         \* the number of sentence pairs taken from zip() so far
    tokNo,          \* the number of tokens of those sentences
    segment,        \* the variable `segment`
    idnum,          \* the variable `idnum`
    offset,         \* the variable `offset`
    mAnn,           \* per segment, the records printed to its .ann file
    mTxt,           \* per segment, the characters printed to its .txt file
    mOpen,          \* the output files that are open
    pcM             \* "idle" | "loop" | "done" | "raised"

ovVars == <<textbounds, t1i, t2i, eliminate, firstMarked, kept, pcO>>
lbVars == <<conllLines, stripOut, attachOut, pcL>>
ptVars == <<annLines, optAttributes, parseOut, pcP>>
tcVars == <<docText, preprocess, breaks, paragraphs, sentences, outLines, pcT>>
rlVars == <<rlLines, annotations, singleclass, rlTagged, rlOut, pcR>>
rmVars == <<mPhase, sentNo, tokNo, segment, idnum, offset, mAnn, mTxt, mOpen,
           pcM>>

vars == <<ovVars, lbVars, ptVars, tcVars, rlVars, rmVars>>

\* what the steps of one function leave alone: the other functions' variables
ovOthers == <<lbVars, ptVars, tcVars, rlVars, rmVars>>
lbOthers == <<ovVars, ptVars, tcVars, rlVars, rmVars>>
ptOthers == <<ovVars, lbVars, tcVars, rlVars, rmVars>>
tcOthers == <<ovVars, lbVars, ptVars, rlVars, rmVars>>
rlOthers == <<ovVars, lbVars, ptVars, tcVars, rmVars>>
rmOthers == <<ovVars, lbVars, ptVars, tcVars, rlVars>>

(***************************************************************************)
(* Bounds of the model.                                                    *)
(***************************************************************************)
MaxSpans == 3       \* spans per list given to eliminate_overlaps
MaxOff == 3         \* largest character offset of such a span
MaxLines == 2       \* lines per list given to strip_labels
MaxAnnLines == 3    \* lines per annotation file given to parse_textbounds
MaxText == 5        \* characters of a text file given to text_to_conll
MaxParas == 2       \* syntok: paragraphs of a document
MaxSynSents == 2    \* syntok: sentences of a paragraph
MaxSynToks == 2     \* syntok: tokens of a sentence
MaxLayout == 3      \* tokens, blanks and sentence ends of a text given to relabel
MaxAnn == 2         \* spans given to relabel
MaxAnnOff == 2      \* largest character offset of such a span
MaxSentLen == 3     \* reverse mapper: tokens of a sentence
MaxTokLen == 2      \* reverse mapper: characters of a token
MaxKeyLen == 1      \* reverse mapper: characters of a sentence key
MaxTokens == 2005   \* reverse mapper: no sentence is read after this many tokens

(***************************************************************************)
(* Generic helpers.                                                        *)
(***************************************************************************)
Range(s) == {s[k] : k \in 1..Len(s)}

SeqsUpTo(S, n) == UNION {[1..k -> S] : k \in 0..n}

(***************************************************************************)
(* Strings: sequences of one-character strings, and the str and re         *)
(* operations the two scripts use on them.                                 *)
(***************************************************************************)
\* \s of the re module and str.isspace, on the characters that occur here
SpaceChars == {" ", "\t", "\n"}
IsSpace(c) == c \in SpaceChars

\* \d of the re module / the digits int() accepts
DigitChars == {"0", "1", "2", "3", "4", "5", "6", "7", "8", "9"}
IsDigit(c) == c \in DigitChars

\* [0-9a-zA-Z] on the characters that occur here
AlnumChars == DigitChars \cup {"a", "b", "c", "x", "A", "B", "O", "T"}
IsAlnum(c) == c \in AlnumChars

AllOf(s, lo, hi, P(_)) == \A k \in lo..hi : P(s[k])

\* the first position >= k of s holding a character of set C, or 0
RECURSIVE FindFrom(_, _, _)
FindFrom(s, k, C) ==
    IF k > Len(s) THEN 0
    ELSE IF s[k] \in C THEN k ELSE FindFrom(s, k + 1, C)

\* str.split(sep) for a one-character sep: the fields between separators,
\* empty fields included
RECURSIVE Split(_, _)
Split(s, sep) ==
    LET k == FindFrom(s, 1, {sep}) IN
    IF k = 0 THEN <<s>>
    ELSE <<SubSeq(s, 1, k - 1)>> \o Split(SubSeq(s, k + 1, Len(s)), sep)

\* sep.join(fields)
RECURSIVE Join(_, _)
Join(fields, sep) ==
    IF fields = <<>> THEN <<>>
    ELSE IF Len(fields) = 1 THEN fields[1]
    ELSE fields[1] \o <<sep>> \o Join(Tail(fields), sep)

\* str.split() without arguments: the maximal runs of non-whitespace
RECURSIVE SplitWs(_)
SplitWs(s) ==
    IF s = <<>> THEN <<>>
    ELSE IF IsSpace(s[1]) THEN SplitWs(Tail(s))
    ELSE LET k == FindFrom(s, 1, SpaceChars)
             e == IF k = 0 THEN Len(s) ELSE k - 1 IN
         <<SubSeq(s, 1, e)>> \o SplitWs(SubSeq(s, e + 1, Len(s)))

\* str.rstrip('\n')
RECURSIVE RStripNewline(_)
RStripNewline(s) ==
    IF s # <<>> /\ s[Len(s)] = "\n"
      THEN RStripNewline(SubSeq(s, 1, Len(s) - 1)) ELSE s

\* whether int(s) succeeds: an optional sign and at least one digit
IsInt(s) ==
    LET d == IF s # <<>> /\ s[1] \in {"+", "-"} THEN Tail(s) ELSE s IN
    d # <<>> /\ \A k \in 1..Len(d) : IsDigit(d[k])

DigitVal(c) ==
    CASE c = "0" -> 0 [] c = "1" -> 1 [] c = "2" -> 2 [] c = "3" -> 3
      [] c = "4" -> 4 [] c = "5" -> 5 [] c = "6" -> 6 [] c = "7" -> 7
      [] c = "8" -> 8 [] c = "9" -> 9

RECURSIVE DigitsVal(_)
DigitsVal(d) ==
    IF d = <<>> THEN 0
    ELSE 10 * DigitsVal(SubSeq(d, 1, Len(d) - 1)) + DigitVal(d[Len(d)])

\* int(s), for s with IsInt(s)
ToInt(s) ==
    IF s[1] = "-" THEN 0 - DigitsVal(Tail(s))
    ELSE IF s[1] = "+" THEN DigitsVal(Tail(s)) ELSE DigitsVal(s)

\* the code point of a character, for the characters compared here
CharCode(c) ==
    CASE c = "\t" -> 9 [] c = "\n" -> 10 [] c = " " -> 32 [] c = "-" -> 45
      [] IsDigit(c) -> 48 + DigitVal(c)
      [] c = "A" -> 65 [] c = "B" -> 66 [] c = "N" -> 78 [] c = "S" -> 83
      [] c = "T" -> 84 [] c = "a" -> 97 [] c = "b" -> 98 [] c = "c" -> 99
      [] c = "x" -> 120

\* a < b for two str values: lexicographic by code point
RECURSIVE StrLess(_, _)
StrLess(a, b) ==
    IF b = <<>> THEN FALSE
    ELSE IF a = <<>> THEN TRUE
    ELSE IF a[1] # b[1] THEN CharCode(a[1]) < CharCode(b[1])
    ELSE StrLess(Tail(a), Tail(b))

\* ''.join(parts)
RECURSIVE Concat(_)
Concat(parts) ==
    IF parts = <<>> THEN <<>> ELSE parts[1] \o Concat(Tail(parts))

(***************************************************************************)
(* eliminate_overlaps, anntoconll.py:314-334.                              *)
(***************************************************************************)
\* Textbound = namedtuple('Textbound', 'start end type text').  Equality and
\* hashing of a namedtuple are by value; `is` is identity (list position).
Textbound(s, e, ty, tx) == [start |-> s, end |-> e, type |-> ty, text |-> tx]

\* line 322 with `t1.start` mistyped as `t1.end` in the second test
DisjointEndTypo(a, b) == b.start >= a.end \/ b.end <= a.end

\* line 322: the pair is skipped when t2 lies fully after or before t1
Disjoint(a, b) == b.start >= a.end \/ b.end <= a.start

\* lines 325-332 without the tie rule: only a strictly shorter span is marked
MarkedNoTie(a, b) ==
    IF a.end - a.start > b.end - b.start THEN {b}
    ELSE IF a.end - a.start < b.end - b.start THEN {a} ELSE {}

\* lines 325-332: the key put into `eliminate` for the overlapping pair (t1, t2)
Marked(a, b) == IF a.end - a.start > b.end - b.start THEN {b} ELSE {a}

\* the nested loops' next position (line 318-319)
OvAdvance ==
    /\ IF t2i < Len(textbounds)
         THEN t2i' = t2i + 1 /\ t1i' = t1i
         ELSE t2i' = 1 /\ t1i' = t1i + 1
    /\ UNCHANGED <<textbounds, kept, pcO, ovOthers>>

OvInLoop == pcO = "loop" /\ t1i <= Len(textbounds)

\* line 320-321: `if t1 is t2: continue`
OvSame ==
    /\ OvInLoop /\ t1i = t2i
    /\ UNCHANGED <<eliminate, firstMarked>>
    /\ OvAdvance

\* line 322-323
OvSkip ==
    /\ OvInLoop /\ t1i # t2i
    /\ Disjoint(textbounds[t1i], textbounds[t2i])
    /\ UNCHANGED <<eliminate, firstMarked>>
    /\ OvAdvance

\* lines 324-332
OvEliminate ==
    /\ OvInLoop /\ t1i # t2i
    /\ ~Disjoint(textbounds[t1i], textbounds[t2i])
    /\ LET m == Marked(textbounds[t1i], textbounds[t2i]) IN
         /\ eliminate' = eliminate \cup m
         /\ firstMarked' = IF firstMarked = <<>> /\ m # {}
                             THEN <<CHOOSE x \in m : TRUE>> ELSE firstMarked
    /\ OvAdvance

\* line 334: `return [t for t in textbounds if t not in eliminate]`
NotEliminated(t) == t \notin eliminate

OvReturn ==
    /\ pcO = "loop" /\ t1i > Len(textbounds)
    /\ kept' = SelectSeq(textbounds, NotEliminated)
    /\ pcO' = "done"
    /\ UNCHANGED <<textbounds, t1i, t2i, eliminate, firstMarked, ovOthers>>

OvSpans == {Textbound(s, e, "A", "x") : s \in 0..MaxOff, e \in 0..MaxOff}

OvInputs == {tb \in SeqsUpTo(OvSpans, MaxSpans) :
                \A k \in 1..Len(tb) : tb[k].start <= tb[k].end}

OvInit ==
    /\ textbounds \in OvInputs
    /\ t1i = 1 /\ t2i = 1
    /\ eliminate = {} /\ firstMarked = <<>>
    /\ kept = <<>>
    /\ pcO = "loop"

OvIdle ==
    /\ textbounds = <<>> /\ t1i = 0 /\ t2i = 0 /\ eliminate = {}
    /\ firstMarked = <<>> /\ kept = <<>> /\ pcO = "idle"

OvNext == OvSame \/ OvSkip \/ OvEliminate \/ OvReturn


(***************************************************************************)
(* Claims about eliminate_overlaps.                                        *)
(***************************************************************************)
\* the overlap relation as the specification states it
SpecOverlaps(a, b) == ~(b.start >= a.end \/ b.end <= a.start)

SpanLen(a) == a.end - a.start

\* positions p < q of textbounds holding two distinct overlapping spans of
\* exactly equal length
TiePair(p, q) ==
    /\ p < q
    /\ textbounds[p] # textbounds[q]
    /\ SpecOverlaps(textbounds[p], textbounds[q])
    /\ SpanLen(textbounds[p]) = SpanLen(textbounds[q])

\* neither member of the pair overlaps any other span of the list
IsolatedPair(p, q) ==
    \A k \in 1..Len(textbounds) : k \notin {p, q} =>
        /\ ~SpecOverlaps(textbounds[p], textbounds[k])
        /\ ~SpecOverlaps(textbounds[k], textbounds[p])
        /\ ~SpecOverlaps(textbounds[q], textbounds[k])
        /\ ~SpecOverlaps(textbounds[k], textbounds[q])

\* C1: once eliminate_overlaps has returned, no two spans at distinct
\* positions of the returned list overlap (duplicates, nested spans and
\* equal-length overlapping spans included), and every returned span is a
\* span of the input.
C1_NoOverlapInOutput ==
    pcO = "done" =>
        /\ \A p, q \in 1..Len(kept) :
              p # q => ~SpecOverlaps(kept[p], kept[q])
        /\ Range(kept) \subseteq Range(textbounds)

\* C1 witness: a returned, non-empty list from three spans among which there
\* were a duplicate pair and a nested pair.
C1_Witness ==
    /\ pcO = "done" /\ Len(textbounds) = 3 /\ kept # <<>>
    /\ \E p, q \in 1..3 : p # q /\ textbounds[p] = textbounds[q]
                            /\ SpanLen(textbounds[p]) > 0
    /\ \E p, q \in 1..3 : /\ SpecOverlaps(textbounds[p], textbounds[q])
                            /\ SpanLen(textbounds[p]) > SpanLen(textbounds[q])

\* C8 (as amended): on an exact length tie of two distinct overlapping spans
\* BOTH members are marked (each in the pass where it is the outer loop's
\* t1), so neither is returned; when the pair is the only overlap of the
\* list, the member marked first is the first of the two in iteration
\* order; the returned list is the unmarked spans in their original order.
C8_TieMarksBoth ==
    pcO = "done" =>
        /\ \A p, q \in 1..Len(textbounds) : TiePair(p, q) =>
              /\ textbounds[p] \in eliminate /\ textbounds[q] \in eliminate
              /\ textbounds[p] \notin Range(kept)
              /\ textbounds[q] \notin Range(kept)
              /\ (IsolatedPair(p, q) /\ Cardinality(eliminate) = 2)
                    => firstMarked = <<textbounds[p]>>
        /\ Len(kept) = Cardinality({k \in 1..Len(textbounds) :
                                        textbounds[k] \notin eliminate})
        /\ \A a, b \in 1..Len(kept) : a < b =>
              \E p, q \in 1..Len(textbounds) :
                  p < q /\ textbounds[p] = kept[a] /\ textbounds[q] = kept[b]

\* C8 witness: three spans, the first two an isolated tie (partial overlap of
\* equal length), the third returned alone.
C8_Witness ==
    /\ pcO = "done" /\ Len(textbounds) = 3
    /\ TiePair(1, 2) /\ IsolatedPair(1, 2)
    /\ textbounds[1].start # textbounds[2].start
    /\ kept = <<textbounds[3]>>

\* C8 as originally stated: on an isolated tie the second member in
\* iteration order is the one marked (the first is kept).
C8_Original ==
    pcO = "done" =>
        \A p, q \in 1..Len(textbounds) :
            (TiePair(p, q) /\ IsolatedPair(p, q)) =>
                /\ textbounds[q] \notin Range(kept)
                /\ textbounds[p] \in Range(kept)

(***************************************************************************)
(* strip_labels and attach_labels, anntoconll.py:16-17, 65-108.            *)
(***************************************************************************)
\* EMPTY_LINE_RE = ^\s*$ (line 16), used with match: every character is
\* whitespace ($ also matches before a final newline, itself whitespace)
EMPTY_LINE_RE(l) == AllOf(l, 1, Len(l), IsSpace)

NotSpace(c) == ~IsSpace(c)

\* CONLL_LINE_RE = ^\S+\t\d+\t\d+. (line 17), used with search
CONLL_LINE_RE(l) ==
    \E a, b, c \in 1..Len(l) :
        /\ a + 1 < b /\ b + 1 < c /\ c <= Len(l)
        /\ AllOf(l, 1, a - 1, NotSpace) /\ a > 1 /\ l[a] = "\t"
        /\ AllOf(l, a + 1, b - 1, IsDigit) /\ l[b] = "\t"
        /\ AllOf(l, b + 1, c - 1, IsDigit) /\ l[c] # "\n"

\* Python's None, and a value that is not None
None == <<>>
Some(x) == <<x>>

\* line 83 with the fields joined by a blank instead of a TAB
StripLineBlankJoin(l) == Join(Tail(Split(l, "\t")), " ")

\* lines 81, 83: the line without its first TAB-separated field
StripLine(l) == Join(Tail(Split(l, "\t")), "\t")

\* lines 81-82: the first TAB-separated field
LabelOf(l) == Split(l, "\t")[1]

\* strip_labels, lines 65-85
strip_labels(lines) ==
    [labels   |-> [k \in 1..Len(lines) |->
                     IF EMPTY_LINE_RE(lines[k]) THEN None
                     ELSE Some(LabelOf(lines[k]))],
     stripped |-> [k \in 1..Len(lines) |->
                     IF EMPTY_LINE_RE(lines[k]) THEN lines[k]
                     ELSE StripLine(lines[k])]]

\* the assertions of attach_labels, lines 95-96 and 101
AttachAsserts(labels, lines) ==
    /\ Len(labels) = Len(lines)
    /\ \A k \in 1..Len(lines) :
         \/ labels[k] = None /\ EMPTY_LINE_RE(lines[k])
         \/ labels[k] # None /\ ~EMPTY_LINE_RE(lines[k])

\* attach_labels, lines 98-108: '%s\t%s' % (label, line) for a non-empty line
attach_labels(labels, lines) ==
    [k \in 1..Len(lines) |->
        IF EMPTY_LINE_RE(lines[k]) THEN lines[k]
        ELSE labels[k][1] \o <<"\t">> \o lines[k]]

LbStrip ==
    /\ pcL = "start"
    /\ stripOut' = strip_labels(conllLines)
    /\ pcL' = "stripped"
    /\ UNCHANGED <<conllLines, attachOut, lbOthers>>

LbAttach ==
    /\ pcL = "stripped"
    /\ AttachAsserts(stripOut.labels, stripOut.stripped)
    /\ attachOut' = attach_labels(stripOut.labels, stripOut.stripped)
    /\ pcL' = "attached"
    /\ UNCHANGED <<conllLines, stripOut, lbOthers>>

\* AssertionError raised at line 95 or 101
LbAssertFails ==
    /\ pcL = "stripped"
    /\ ~AttachAsserts(stripOut.labels, stripOut.stripped)
    /\ pcL' = "assert"
    /\ UNCHANGED <<conllLines, stripOut, attachOut, lbOthers>>

\* The lines the functions are tried on: CoNLL rows `label TAB start TAB end
\* rest`, blank lines, and lines read_sentence (lines 56-61) would refuse.
LbLabels == {<<"O">>, <<"B", "-", "A">>}
LbStarts == {<<"0">>, <<"1", "2">>}
LbRests == {<<"\t", "a", "\n">>, <<"\t", "a", "\t", "b", "\n">>, <<"x">>}
LbRows == {la \o <<"\t">> \o st \o <<"\t", "3">> \o re :
              la \in LbLabels, st \in LbStarts, re \in LbRests}
LbBlank == {<<"\n">>, <<" ", "\n">>, <<"\t", "\n">>}
LbRefused == {<<"O", "\n">>, <<"O", "\t", " ", "\n">>, <<"O", "\t", "\n">>}
LbLinePool == LbRows \cup LbBlank \cup LbRefused

LbInit ==
    /\ conllLines \in SeqsUpTo(LbLinePool, MaxLines)
    /\ stripOut = <<>> /\ attachOut = <<>>
    /\ pcL = "start"

LbIdle ==
    /\ conllLines = <<>> /\ stripOut = <<>> /\ attachOut = <<>>
    /\ pcL = "idle"

LbNext == LbStrip \/ LbAttach \/ LbAssertFails

\* what read_sentence (lines 53-62) lets through: blank or CoNLL-format lines
TaggedLines(lines) ==
    \A k \in 1..Len(lines) :
        EMPTY_LINE_RE(lines[k]) \/ CONLL_LINE_RE(lines[k])

\* C4: for every list of lines each of which is blank or a tagged line in
\* CoNLL format, attach_labels applied to the two results of strip_labels
\* raises no assertion failure and returns the original lines, element for
\* element and character for character.
C4_RoundTrip ==
    (pcL \in {"attached", "assert"} /\ TaggedLines(conllLines)) =>
        /\ pcL = "attached"
        /\ attachOut = conllLines

\* C4 witness: a blank line and a row with three TABs went through both
\* functions.
C4_Witness ==
    /\ pcL = "attached" /\ Len(conllLines) = 2 /\ TaggedLines(conllLines)
    /\ \E k \in 1..2 : conllLines[k] = <<" ", "\n">>
    /\ \E k \in 1..2 : /\ CONLL_LINE_RE(conllLines[k])
                       /\ Len(Split(conllLines[k], "\t")) = 5
                       /\ stripOut.labels[k] = Some(<<"B", "-", "A">>)

(***************************************************************************)
(* parse_textbounds and the handlers of process_files,                     *)
(* anntoconll.py:244-311.                                                  *)
(***************************************************************************)
\* ^T\d+\t and ^A\d+\t (lines 276-277)
RecordLine(l, letter) ==
    /\ Len(l) >= 3 /\ l[1] = letter
    /\ \E t \in 3..Len(l) : l[t] = "\t" /\ AllOf(l, 2, t - 1, IsDigit)

TEXTBOUND_LINE_RE(l) == RecordLine(l, "T")
ATTRIBUTE_LINE_RE(l) == RecordLine(l, "A")

\* lines 294-295: the two unpackings of an attribute line succeed
AttributeUnpacks(l) ==
    /\ Len(Split(l, "\t")) = 2
    /\ Len(Split(Split(l, "\t")[2], " ")) = 2

\* line 296: (tid, att)
AttributeOf(l) ==
    LET at == Split(Split(l, "\t")[2], " ") IN <<at[2], at[1]>>

\* lines 299-301: the two unpackings and the two int() calls succeed
TextboundUnpacks(l) ==
    /\ Len(Split(l, "\t")) = 3
    /\ LET to == SplitWs(Split(l, "\t")[2]) IN
         Len(to) = 3 /\ IsInt(to[2]) /\ IsInt(to[3])

\* lines 299-303: the entry stored under id_
EntryOf(l) ==
    LET f == Split(l, "\t")
        to == SplitWs(f[2]) IN
    [id |-> f[1], start |-> ToInt(to[2]), end |-> ToInt(to[3]),
     types |-> <<to[1]>>, text |-> f[3]]

\* mapping[id_] = ... (line 303): a dict keeps the place of a key it has
MapPut(mapping, e) ==
    IF \E k \in 1..Len(mapping) : mapping[k].id = e.id
      THEN [k \in 1..Len(mapping) |->
              IF mapping[k].id = e.id THEN e ELSE mapping[k]]
      ELSE Append(mapping, e)

\* the loop of lines 289-303 from line k on; an unpacking or int() that
\* fails raises ValueError
RECURSIVE ParseLoop(_, _, _, _)
ParseLoop(lines, k, mapping, attributes) ==
    IF k > Len(lines)
      THEN [kind |-> "ok", mapping |-> mapping, attributes |-> attributes,
            line |-> 0]
    ELSE LET l == RStripNewline(lines[k]) IN
      IF ~TEXTBOUND_LINE_RE(l)
        THEN IF ATTRIBUTE_LINE_RE(l)
               THEN IF AttributeUnpacks(l)
                      THEN ParseLoop(lines, k + 1, mapping,
                                     Append(attributes, AttributeOf(l)))
                      ELSE [kind |-> "ValueError", mapping |-> mapping,
                            attributes |-> attributes, line |-> k]
               ELSE ParseLoop(lines, k + 1, mapping, attributes)
      ELSE IF TextboundUnpacks(l)
        THEN ParseLoop(lines, k + 1, MapPut(mapping, EntryOf(l)), attributes)
        ELSE [kind |-> "ValueError", mapping |-> mapping,
              attributes |-> attributes, line |-> k]

\* (tid, att) pairs compare as tuples of str
PairLess(a, b) == StrLess(a[1], b[1]) \/ (a[1] = b[1] /\ StrLess(a[2], b[2]))

\* sorted(attributes), line 307
RECURSIVE Sorted(_)
Sorted(ps) ==
    IF ps = <<>> THEN <<>>
    ELSE LET m == CHOOSE k \in 1..Len(ps) :
                    \A j \in 1..Len(ps) : ~PairLess(ps[j], ps[k])
             rest == [j \in 1..(Len(ps) - 1) |->
                        IF j < m THEN ps[j] ELSE ps[j + 1]] IN
         <<ps[m]>> \o Sorted(rest)

\* lines 307-308: mapping[tid][2].append(att), KeyError for an unknown tid
RECURSIVE AppendAttributes(_, _)
AppendAttributes(mapping, atts) ==
    IF atts = <<>> THEN [kind |-> "ok", mapping |-> mapping]
    ELSE IF ~\E k \in 1..Len(mapping) : mapping[k].id = atts[1][1]
      THEN [kind |-> "KeyError", mapping |-> mapping]
    ELSE AppendAttributes(
            [k \in 1..Len(mapping) |->
               IF mapping[k].id = atts[1][1]
                 THEN [mapping[k] EXCEPT !.types = Append(@, atts[1][2])]
                 ELSE mapping[k]],
            Tail(atts))

\* lines 309-310
TextboundsOf(mapping) ==
    [k \in 1..Len(mapping) |->
        Textbound(mapping[k].start, mapping[k].end,
                  Join(mapping[k].types, "-"), mapping[k].text)]

\* parse_textbounds, lines 282-311
parse_textbounds(lines, attributesOn) ==
    LET p == ParseLoop(lines, 1, <<>>, <<>>) IN
    IF p.kind # "ok"
      THEN [kind |-> p.kind, textbounds |-> <<>>, line |-> p.line]
    ELSE IF ~attributesOn
      THEN [kind |-> "ok", textbounds |-> TextboundsOf(p.mapping), line |-> 0]
    ELSE LET a == AppendAttributes(p.mapping, Sorted(p.attributes)) IN
      IF a.kind = "ok"
        THEN [kind |-> "ok", textbounds |-> TextboundsOf(a.mapping),
              line |-> 0]
        ELSE [kind |-> a.kind, textbounds |-> <<>>, line |-> 0]

\* parse_textbounds returns
PtReturn ==
    /\ pcP = "start"
    /\ parse_textbounds(annLines, optAttributes).kind = "ok"
    /\ parseOut' = parse_textbounds(annLines, optAttributes)
    /\ pcP' = "returned"
    /\ UNCHANGED <<annLines, optAttributes, ptOthers>>

\* parse_textbounds raises
PtRaise ==
    /\ pcP = "start"
    /\ parse_textbounds(annLines, optAttributes).kind # "ok"
    /\ parseOut' = parse_textbounds(annLines, optAttributes)
    /\ pcP' = "raised"
    /\ UNCHANGED <<annLines, optAttributes, ptOthers>>

\* process_files, lines 264-271: the exception is re-raised by the inner
\* handler, and by the outer one unless it is a FormatError
ProcessFilesExcept ==
    /\ pcP = "raised"
    /\ pcP' = IF parseOut.kind = "FormatError" THEN "swallowed" ELSE "fatal"
    /\ UNCHANGED <<annLines, optAttributes, parseOut, ptOthers>>

\* The lines annotation files are made of.
PtGood == {
    <<"T", "1", "\t", "A", " ", "0", " ", "2", "\t", "a", "b", "\n">>,
    <<"T", "2", "\t", "B", " ", "1", " ", "3", "\t", "b", "c", "\n">>,
    <<"A", "1", "\t", "S", " ", "T", "1", "\n">>,
    <<"A", "2", "\t", "N", " ", "T", "1", "\n">>,
    <<"x", "\n">> }
PtOrphan == {<<"A", "3", "\t", "N", " ", "T", "9", "\n">>}
PtBad == {
    <<"T", "3", "\t", "A", " ", "0", " ", "2", "\n">>,
    <<"T", "3", "\t", "A", " ", "0", " ", "x", "\t", "a", "b", "\n">>,
    <<"T", "3", "\t", "A", " ", "0", "\t", "a", "b", "\n">>,
    <<"A", "4", "\t", "N", "\n">> }
PtLinePool == PtGood \cup PtOrphan \cup PtBad

PtInit ==
    /\ annLines \in SeqsUpTo(PtLinePool, MaxAnnLines)
    /\ optAttributes \in BOOLEAN
    /\ parseOut = <<>>
    /\ pcP = "start"

PtIdle ==
    /\ annLines = <<>> /\ optAttributes = FALSE /\ parseOut = <<>>
    /\ pcP = "idle"

PtNext == PtReturn \/ PtRaise \/ ProcessFilesExcept

(***************************************************************************)
(* Claims about parse_textbounds.                                          *)
(***************************************************************************)
\* a line recognised as a textbound record that does not split into three
\* TAB-separated fields, or whose offsets are not integers
MalformedTextbound(line) ==
    LET l == RStripNewline(line) IN
    /\ TEXTBOUND_LINE_RE(l)
    /\ \/ Len(Split(l, "\t")) # 3
       \/ Len(SplitWs(Split(l, "\t")[2])) # 3
       \/ ~IsInt(SplitWs(Split(l, "\t")[2])[2])
       \/ ~IsInt(SplitWs(Split(l, "\t")[2])[3])

\* C7: when parse_textbounds stops at a malformed textbound line, the error
\* is a FormatError, and process_files does not end with a fatal error.
C7_FormatError ==
    (/\ pcP \in {"raised", "fatal", "swallowed"}
     /\ parseOut.line > 0
     /\ MalformedTextbound(annLines[parseOut.line])) =>
        /\ parseOut.kind = "FormatError"
        /\ pcP # "fatal"

\* the ids of the textbound records of a file
TextboundIds(lines) ==
    {Split(lines[k], "\t")[1] : k \in {j \in 1..Len(lines) :
                                  TEXTBOUND_LINE_RE(RStripNewline(lines[j]))}}

\* an attribute record whose entity id is the id of no textbound record
OrphanAttribute(line, lines) ==
    LET l == RStripNewline(line) IN
    /\ ATTRIBUTE_LINE_RE(l) /\ AttributeUnpacks(l)
    /\ AttributeOf(l)[1] \notin TextboundIds(lines)

RECURSIVE WithoutOrphans(_, _)
WithoutOrphans(lines, all) ==
    IF lines = <<>> THEN <<>>
    ELSE IF OrphanAttribute(lines[1], all) THEN WithoutOrphans(Tail(lines), all)
    ELSE <<lines[1]>> \o WithoutOrphans(Tail(lines), all)

\* C9: a file with an orphan attribute record, which parses without it,
\* parses with it too and gives the same spans, whether attribute-appending
\* is enabled or not.
C9_OrphanDropped ==
    (/\ pcP \in {"returned", "raised"}
     /\ \E k \in 1..Len(annLines) : OrphanAttribute(annLines[k], annLines)
     /\ parse_textbounds(WithoutOrphans(annLines, annLines),
                         optAttributes).kind = "ok") =>
        /\ pcP = "returned"
        /\ parseOut.textbounds =
             parse_textbounds(WithoutOrphans(annLines, annLines),
                              optAttributes).textbounds

(***************************************************************************)
(* text_to_conll up to the call of relabel, anntoconll.py:114-178.         *)
(***************************************************************************)
\* `for line in f`: the text cut after every newline
RECURSIVE FileLines(_)
FileLines(s) ==
    IF s = <<>> THEN <<>>
    ELSE LET k == FindFrom(s, 1, {"\n"}) IN
         IF k = 0 THEN <<s>>
         ELSE <<SubSeq(s, 1, k)>> \o FileLines(SubSeq(s, k + 1, Len(s)))

\* the end of the run, starting at 1, of characters all in C or all not in C
RECURSIVE RunEnd(_, _, _)
RunEnd(s, k, C) ==
    IF k < Len(s) /\ (s[k + 1] \in C <=> s[1] \in C)
      THEN RunEnd(s, k + 1, C) ELSE k

\* PRETOKENIZED_REGEX.findall(line), line 115: \S+|\s+
RECURSIVE PretokenizedFindall(_)
PretokenizedFindall(s) ==
    IF s = <<>> THEN <<>>
    ELSE LET e == RunEnd(s, 1, SpaceChars) IN
         <<SubSeq(s, 1, e)>> \o PretokenizedFindall(SubSeq(s, e + 1, Len(s)))

\* [t for t in TOKENIZATION_REGEX.split(s) if t], lines 114 and 145: every
\* run of [0-9a-zA-Z] is a token, every other character a token of its own
RECURSIVE TokenizationSplit(_)
TokenizationSplit(s) ==
    IF s = <<>> THEN <<>>
    ELSE LET e == IF IsAlnum(s[1]) THEN RunEnd(s, 1, AlnumChars) ELSE 1 IN
         <<SubSeq(s, 1, e)>> \o TokenizationSplit(SubSeq(s, e + 1, Len(s)))

\* NEWLINE_TERM_REGEX.split(line), lines 117 and 144: (.*?\n) matches up to
\* each newline; split keeps the matches and the (empty) text between them
RECURSIVE NewlineTermSplit(_)
NewlineTermSplit(s) ==
    LET k == FindFrom(s, 1, {"\n"}) IN
    IF k = 0 THEN <<s>>
    ELSE <<<<>>, SubSeq(s, 1, k)>> \o NewlineTermSplit(SubSeq(s, k + 1, Len(s)))

\* sentencebreaks_to_newlines (server/src/sentencesplit.py, not part of the
\* sources at hand): the text with the blanks at the sentence breaks it
\* detects (the positions br) replaced by newlines, the length unchanged
sentencebreaks_to_newlines(s, br) ==
    [k \in 1..Len(s) |-> IF k \in br THEN "\n" ELSE s[k]]

\* the token lists kept: `if tokenized: sentences.append(tokenized)`
NonEmpty(x) == x # <<>>

\* lines 130-133
SentencesNone(text) ==
    LET ls == FileLines(text) IN
    SelectSeq([k \in 1..Len(ls) |-> PretokenizedFindall(ls[k])], NonEmpty)

\* lines 144-147, for one line after sentence splitting
SentencesOfLine(line) ==
    LET ps == NewlineTermSplit(line) IN
    SelectSeq([k \in 1..Len(ps) |-> TokenizationSplit(ps[k])], NonEmpty)

\* lines 142-147; br holds positions of the whole text, and the splitter is
\* called line by line
RECURSIVE SentencesRegexFrom(_, _, _)
SentencesRegexFrom(ls, base, br) ==
    IF ls = <<>> THEN <<>>
    ELSE SentencesOfLine(
             sentencebreaks_to_newlines(ls[1],
                 {k \in 1..Len(ls[1]) : base + k \in br}))
         \o SentencesRegexFrom(Tail(ls), base + Len(ls[1]), br)

SentencesRegex(text, br) == SentencesRegexFrom(FileLines(text), 0, br)

\* lines 153-158: the spacing and the value of each token, when not empty
RECURSIVE SyntokTokenized(_)
SyntokTokenized(sentence) ==
    IF sentence = <<>> THEN <<>>
    ELSE (IF sentence[1].spacing # <<>> THEN <<sentence[1].spacing>> ELSE <<>>)
         \o (IF sentence[1].value # <<>> THEN <<sentence[1].value>> ELSE <<>>)
         \o SyntokTokenized(Tail(sentence))

\* lines 151-162: the sentences of each paragraph, then ['\n']
RECURSIVE SentencesSyntok(_)
SentencesSyntok(paras) ==
    IF paras = <<>> THEN <<>>
    ELSE SelectSeq([k \in 1..Len(paras[1]) |-> SyntokTokenized(paras[1][k])],
                   NonEmpty)
         \o << <<<<"\n">>>> >>
         \o SentencesSyntok(Tail(paras))

\* t.isspace(), line 171 (false for the empty string)
IsSpaceStr(t) == t # <<>> /\ AllOf(t, 1, Len(t), IsSpace)

\* lines 170-174: the rows of one sentence from offset on
RECURSIVE SentenceRows(_, _)
SentenceRows(toks, off) ==
    IF toks = <<>> THEN <<>>
    ELSE (IF ~IsSpaceStr(toks[1])
            THEN <<[tag |-> <<"O">>, start |-> off,
                    end |-> off + Len(toks[1]), text |-> toks[1]]>>
            ELSE <<>>)
         \o SentenceRows(Tail(toks), off + Len(toks[1]))

\* lines 164-178: the rows of all sentences, [] after a sentence with a
\* non-space token
RECURSIVE ConllRows(_, _)
ConllRows(sents, off) ==
    IF sents = <<>> THEN <<>>
    ELSE LET rows == SentenceRows(sents[1], off) IN
         rows \o (IF rows # <<>> THEN << <<>> >> ELSE <<>>)
              \o ConllRows(Tail(sents), off + Len(Concat(sents[1])))

TcFinish(sents) ==
    /\ sentences' = sents
    /\ outLines' = ConllRows(sents, 0)
    /\ pcT' = "done"
    /\ UNCHANGED <<docText, preprocess, breaks, paragraphs, tcOthers>>

\* options.preprocess == 'none', lines 129-133
TcNone ==
    /\ pcT = "start" /\ preprocess = "none"
    /\ TcFinish(SentencesNone(docText))

\* options.preprocess == 'regex', lines 134-147
TcRegex ==
    /\ pcT = "start" /\ preprocess = "regex"
    /\ TcFinish(SentencesRegex(docText, breaks))

\* options.preprocess == 'syntok', lines 148-162
TcSyntok ==
    /\ pcT = "start" /\ preprocess = "syntok"
    /\ TcFinish(SentencesSyntok(paragraphs))

TextChars == {"a", ".", " ", "\n"}

\* A syntok token: the whitespace before it and its text.
SynTokens == [spacing : {<<>>, <<" ">>}, value : {<<"a">>}]
SynSentences == UNION {[1..n -> SynTokens] : n \in 1..MaxSynToks}
SynParagraphs == UNION {[1..n -> SynSentences] : n \in 1..MaxSynSents}
SynDocuments == UNION {[1..n -> SynParagraphs] : n \in 1..MaxParas}

\* the text of a paragraph: its tokens with their spacing
ParagraphText(para) ==
    Concat([k \in 1..Len(para) |-> Concat(SyntokTokenized(para[k]))])

\* Join with a separator of several characters
RECURSIVE JoinStr(_, _)
JoinStr(parts, sep) ==
    IF parts = <<>> THEN <<>>
    ELSE IF Len(parts) = 1 THEN parts[1]
    ELSE parts[1] \o sep \o JoinStr(Tail(parts), sep)

\* what the segmenter takes out between two paragraphs: a run of two or
\* more newlines
ParagraphSeps == {<<"\n", "\n">>, <<"\n", "\n", "\n">>}

TcInit ==
    /\ preprocess \in {"none", "regex", "syntok"}
    /\ IF preprocess = "syntok"
         THEN /\ paragraphs \in SynDocuments
              /\ \E sep \in ParagraphSeps :
                    docText = JoinStr([k \in 1..Len(paragraphs) |->
                                         ParagraphText(paragraphs[k])], sep)
              /\ breaks = {}
         ELSE /\ paragraphs = <<>>
              /\ docText \in SeqsUpTo(TextChars, MaxText)
              /\ IF preprocess = "regex"
                   THEN breaks \in SUBSET {k \in 1..Len(docText) :
                                             docText[k] = " "}
                   ELSE breaks = {}
    /\ sentences = <<>> /\ outLines = <<>>
    /\ pcT = "start"

TcIdle ==
    /\ docText = <<>> /\ preprocess = "none" /\ breaks = {}
    /\ paragraphs = <<>> /\ sentences = <<>> /\ outLines = <<>>
    /\ pcT = "idle"

TcNext == TcNone \/ TcRegex \/ TcSyntok

(***************************************************************************)
(* Claims about text_to_conll.                                             *)
(***************************************************************************)
\* the rows that are not sentence separators
TokenRows(rows) == SelectSeq(rows, NonEmpty)

\* every row's offsets delimit its text in the input
RowsMatchText(rows, text) ==
    \A k \in 1..Len(rows) :
        /\ rows[k].end - rows[k].start = Len(rows[k].text)
        /\ rows[k].start >= 0 /\ rows[k].end <= Len(text)
        /\ SubSeq(text, rows[k].start + 1, rows[k].end) = rows[k].text

\* the rows' offsets are strictly increasing and do not overlap
RowsIncreasing(rows) ==
    \A k \in 1..(Len(rows) - 1) :
        rows[k].start < rows[k + 1].start /\ rows[k].end <= rows[k + 1].start

\* the text the tokens are cut from: the file's text, after the sentence
\* splitter in the regex strategy
TokenizedText ==
    IF preprocess = "regex"
      THEN sentencebreaks_to_newlines(docText, breaks) ELSE docText

\* C3: under every tokenization strategy every emitted row
\* [tag, start, end, text] has end - start = len(text) and
\* input[start:end] = text, and the rows' offsets are strictly increasing
\* and do not overlap (what the claim derives from the tokens concatenating
\* to the text).
C3_OffsetsPreserved ==
    pcT = "done" =>
        /\ RowsMatchText(TokenRows(outLines), docText)
        /\ RowsIncreasing(TokenRows(outLines))

\* C3, the part that holds: with the strategies `none` and `regex` the
\* tokens of all sentences (whitespace tokens included) concatenate to the
\* text and the rows are as C3 says.
C3_HoldsWithoutSyntok ==
    (pcT = "done" /\ preprocess # "syntok") =>
        /\ Concat(Concat(sentences)) = TokenizedText
        /\ RowsMatchText(TokenRows(outLines), docText)
        /\ RowsIncreasing(TokenRows(outLines))

(***************************************************************************)
(* relabel, anntoconll.py:188-232.                                         *)
(***************************************************************************)
\* lines 194-198: offset_label[i], the last span of the list that claims
\* offset i (None when no span does)
OffsetLabel(anns, i) ==
    LET ks == {k \in 1..Len(anns) : anns[k].start <= i /\ i < anns[k].end} IN
    IF ks = {} THEN None
    ELSE Some(anns[CHOOSE k \in ks : \A j \in ks : j <= k])

\* lines 208-215: the type of the span at the first claimed offset of the
\* token (None when no offset of the token is claimed)
TokenLabel(anns, row) ==
    LET os == {o \in row.start..(row.end - 1) : OffsetLabel(anns, o) # None} IN
    IF os = {} THEN None
    ELSE OffsetLabel(anns, CHOOSE o \in os : \A q \in os : o <= q)[1].type

\* line 203 without the reset: the label before the boundary is kept
BoundaryPrevKept(prev) == prev

\* line 203: prev_label after a sentence boundary
BoundaryPrev(prev) == None

\* lines 217-221: the tag of a token with this label
TagFor(label, prev, tag) ==
    IF label # None
      THEN IF label = prev THEN <<"I", "-">> \o label
                           ELSE <<"B", "-">> \o label
      ELSE tag

\* lines 200-224: the rows from row k on, prev being prev_label
RECURSIVE TagRows(_, _, _, _)
TagRows(lines, k, prev, anns) ==
    IF k > Len(lines) THEN <<>>
    ELSE IF lines[k] = <<>>
      THEN << <<>> >> \o TagRows(lines, k + 1, BoundaryPrev(prev), anns)
    ELSE LET label == TokenLabel(anns, lines[k]) IN
         <<[lines[k] EXCEPT !.tag = TagFor(label, prev, @)]>>
         \o TagRows(lines, k + 1, label, anns)

\* lines 227-230: l[0] = l[0][:2] + options.singleclass
SingleClassed(lines, class) ==
    [k \in 1..Len(lines) |->
        IF lines[k] # <<>> /\ lines[k].tag # <<"O">>
          THEN [lines[k] EXCEPT !.tag = SubSeq(@, 1, 2) \o class]
          ELSE lines[k]]

\* lines 192-224
RlTag ==
    /\ pcR = "start"
    /\ rlTagged' = TagRows(rlLines, 1, None, annotations)
    /\ pcR' = "tagged"
    /\ UNCHANGED <<rlLines, annotations, singleclass, rlOut, rlOthers>>

\* lines 227-232, options.singleclass set
RlSingleClass ==
    /\ pcR = "tagged" /\ singleclass # None
    /\ rlOut' = SingleClassed(rlTagged, singleclass)
    /\ pcR' = "done"
    /\ UNCHANGED <<rlLines, annotations, singleclass, rlTagged, rlOthers>>

\* lines 227 and 232, options.singleclass not set
RlReturn ==
    /\ pcR = "tagged" /\ singleclass = None
    /\ rlOut' = rlTagged
    /\ pcR' = "done"
    /\ UNCHANGED <<rlLines, annotations, singleclass, rlTagged, rlOthers>>

\* The rows of a text laid out as one-character tokens ("w1"),
\* two-character tokens ("w2"), blanks ("sp") and sentence ends ("nl"), as
\* lines 166-178 make them.
RECURSIVE LayoutRows(_, _)
LayoutRows(layout, off) ==
    IF layout = <<>> THEN <<>>
    ELSE IF layout[1] = "nl" THEN << <<>> >> \o LayoutRows(Tail(layout), off)
    ELSE IF layout[1] = "sp" THEN LayoutRows(Tail(layout), off + 1)
    ELSE LET n == IF layout[1] = "w1" THEN 1 ELSE 2 IN
         <<[tag |-> <<"O">>, start |-> off, end |-> off + n,
            text |-> [k \in 1..n |-> "a"]]>>
         \o LayoutRows(Tail(layout), off + n)

RlSpans == {Textbound(s, e, ty, <<"a">>) :
               s \in 0..MaxAnnOff, e \in 0..MaxAnnOff, ty \in {<<"A">>, <<"B">>}}

RlInit ==
    /\ \E layout \in SeqsUpTo({"w1", "w2", "sp", "nl"}, MaxLayout) :
          rlLines = LayoutRows(layout, 0)
    /\ annotations \in {an \in SeqsUpTo(RlSpans, MaxAnn) :
                           \A k \in 1..Len(an) : an[k].start < an[k].end}
    /\ singleclass \in {None, <<"X">>}
    /\ rlTagged = <<>> /\ rlOut = <<>>
    /\ pcR = "start"

RlIdle ==
    /\ rlLines = <<>> /\ annotations = <<>> /\ singleclass = None
    /\ rlTagged = <<>> /\ rlOut = <<>>
    /\ pcR = "idle"

RlNext == RlTag \/ RlSingleClass \/ RlReturn

(***************************************************************************)
(* Claims about relabel.                                                   *)
(***************************************************************************)
TagIsO(row) == row.tag = <<"O">>
TagPrefix(row) == row.tag[1]
TagType(row) == SubSeq(row.tag, 3, Len(row.tag))

\* row k continues a run: the row before it is a token of the same sentence
\* with a non-O tag of the same type
ContinuesRun(rows, k) ==
    /\ k > 1 /\ rows[k - 1] # <<>> /\ ~TagIsO(rows[k - 1])
    /\ TagType(rows[k - 1]) = TagType(rows[k])

Tagged(rows) == {k \in 1..Len(rows) : rows[k] # <<>> /\ ~TagIsO(rows[k])}

\* no I-<type> follows O, a sentence boundary or another type
NoStrayI(rows) ==
    \A k \in Tagged(rows) : TagPrefix(rows[k]) = "I" => ContinuesRun(rows, k)

\* every maximal run of same-type tags begins with B-<type>
RunsBeginWithB(rows) ==
    \A k \in Tagged(rows) : ~ContinuesRun(rows, k) => TagPrefix(rows[k]) = "B"

\* a run holds no B-<type> after its first tag
OneBPerRun(rows) ==
    \A k \in Tagged(rows) : ContinuesRun(rows, k) => TagPrefix(rows[k]) = "I"

\* C2 (as amended): in the rows relabel returns, no I-<type> tag follows an
\* O tag, a sentence boundary or a tag of another type, and every maximal
\* run of same-type non-O tags begins with B-<type>.  That B is the only B
\* of the run when no single class is configured; with a single class a run
\* holds a further B-<class> exactly where the type changed before
\* collapsing, and the B-/I- prefixes are those from before collapsing.
C2_BioConsistent ==
    pcR = "done" =>
        /\ NoStrayI(rlOut)
        /\ RunsBeginWithB(rlOut)
        /\ singleclass = None => OneBPerRun(rlOut)
        /\ singleclass # None =>
             \A k \in Tagged(rlOut) :
                 /\ TagPrefix(rlOut[k]) = TagPrefix(rlTagged[k])
                 /\ TagType(rlOut[k]) = singleclass
                 /\ (ContinuesRun(rlOut, k) /\ TagPrefix(rlOut[k]) = "B")
                       => TagType(rlTagged[k - 1]) # TagType(rlTagged[k])

\* C2 witness: with a single class configured, a returned sentence holds
\* B-X I-X (one span over two tokens), and another row after a sentence
\* boundary is tagged B-X.
C2_Witness ==
    /\ pcR = "done" /\ singleclass = <<"X">>
    /\ \E k \in 2..Len(rlOut) :
          /\ rlOut[k] # <<>> /\ rlOut[k].tag = <<"I", "-", "X">>
          /\ rlOut[k - 1] # <<>> /\ rlOut[k - 1].tag = <<"B", "-", "X">>
    /\ \E k \in 2..Len(rlOut) :
          /\ rlOut[k] # <<>> /\ rlOut[k].tag = <<"B", "-", "X">>
          /\ rlOut[k - 1] = <<>>

\* C2 as originally stated: the same with exactly one B per run whether or
\* not a single class is configured.
C2_Original ==
    pcR = "done" =>
        /\ NoStrayI(rlOut)
        /\ RunsBeginWithB(rlOut)
        /\ OneBPerRun(rlOut)

(***************************************************************************)
(* main of conllpos_to_standoff.py, lines 52-58 and 72-110, for one        *)
(* document.  The document's sentence i has 1..MaxSentLen tokens, in a     *)
(* cycle that starts at mPhase; its tokens and its key vary in length      *)
(* with their position.  The two input files agree unless a step says      *)
(* otherwise.                                                              *)
(***************************************************************************)
SentLenOf(i) == 1 + ((i + mPhase) % MaxSentLen)

\* the text of token t of sentence i
TokText(i, t) ==
    [k \in 1..(1 + ((i + t) % MaxTokLen)) |->
        IF (k + t) % 2 = 0 THEN "a" ELSE "b"]

\* the key of sentence i
KeyOf(i) == [k \in 1..(i % (MaxKeyLen + 1)) |-> "x"]

\* line i of the tokenized text file: key|token token ...
TokLineOf(i) ==
    KeyOf(i) \o <<"|">>
    \o Join([t \in 1..SentLenOf(i) |-> TokText(i, t)], " ")

\* str.replace(old, new, 1) for one-character old and new
ReplaceFirst(s, old, new) ==
    LET k == FindFrom(s, 1, {old}) IN
    [j \in 1..Len(s) |-> IF j = k THEN new ELSE s[j]]

\* line 74: line.replace('|', ' ', 1).split(' ')
toksent(i) == Split(ReplaceFirst(TokLineOf(i), "|", " "), " ")

\* a row of readconll (lines 35-36): the line number, then the columns; the
\* word is conlltok[4] and the POS column conlltok[5]
ConllTok(text, poscol) == <<0, <<"d">>, <<"0">>, <<"0">>, text, poscol>>

\* the POS column: <pos>[<extra>
GoodPos == <<"N", "[", "x">>
BadPos == <<"N">>

\* sentence i of the CoNLL file, agreeing with the tokenized text
conllsent(i) ==
    [t \in 1..SentLenOf(i) |-> ConllTok(TokText(i, t), GoodPos)]

\* line 92: pos.index('[') raises ValueError when there is no '['
PosRaises(poscol) == FindFrom(poscol, 1, {"["}) = 0

\* line 92: pos[:pos.index('[')]
PosOf(poscol) == SubSeq(poscol, 1, FindFrom(poscol, 1, {"["}) - 1)

\* tokstr, lines 54-57: the two sanity checks
TokstrRaises(text) ==
    \/ "\n" \in Range(text)
    \/ text # <<>> /\ (IsSpace(text[1]) \/ IsSpace(text[Len(text)]))

\* tokstr, line 58: the record 'T%d\t%s %d %d\t%s'; `sent`, the sentence
\* the token came from, is not part of the record
tokstr(start, end, ttype, id, text, sent) ==
    [id |-> id, type |-> ttype, start |-> start, end |-> end, text |-> text,
     sent |-> sent]

\* line 96 without the separator: offset += len(text)
OffsetAfterNoSep(off, text) == off + Len(text)

\* line 96: offset += len(text) + 1
OffsetAfter(off, text) == off + Len(text) + 1

\* lines 90-97 for the tokens t..n of a sentence: the records printed
RECURSIVE TokenRecords(_, _, _, _, _, _)
TokenRecords(cs, t, n, off, id, sent) ==
    IF t > n THEN <<>>
    ELSE <<tokstr(off, off + Len(cs[t][5]), PosOf(cs[t][6]), id, cs[t][5],
                  sent)>>
         \o TokenRecords(cs, t + 1, n, OffsetAfter(off, cs[t][5]), id + 1, sent)

\* the value of offset after the tokens t..n
RECURSIVE OffsetAfterTokens(_, _, _, _)
OffsetAfterTokens(cs, t, n, off) ==
    IF t > n THEN off
    ELSE OffsetAfterTokens(cs, t + 1, n, OffsetAfter(off, cs[t][5]))

\* line 98: ' '.join(toksent).replace(' ', '|', 1), and print's newline
TxtLine(ts) == ReplaceFirst(Join(ts, " "), " ", "|") \o <<"\n">>

\* line 99: the number idnum is compared with
SegmentLimit == 1000

\* line 99 with > for >=
SegmentFullStrict(id) == id > SegmentLimit

\* line 99: if idnum >= 1000
SegmentFull(id) == id >= SegmentLimit

AnnFile(seg) == <<"ann", seg>>
TxtFile(seg) == <<"txt", seg>>

\* no token of the sentence raises at line 92 or 94
TokensPass(cs) ==
    \A t \in 1..Len(cs) : ~PosRaises(cs[t][6]) /\ ~TokstrRaises(cs[t][5])

\* lines 89-97: the .ann file of the segment after the sentence
AnnAfter(cs, ts) ==
    mAnn[segment]
    \o TokenRecords(cs, 1, Len(cs), offset + Len(ts[1]) + 1, idnum, sentNo + 1)

\* line 98: the .txt file of the segment after the sentence
TxtAfter(ts) == mTxt[segment] \o TxtLine(ts)

\* lines 83-98: the next sentence pair is taken and passes
RmTake(cs, ts) ==
    /\ Len(cs) = Len(ts) - 1
    /\ TokensPass(cs)
    /\ sentNo' = sentNo + 1
    /\ tokNo' = tokNo + Len(cs)
    /\ UNCHANGED <<mPhase, pcM, rmOthers>>

RmMore == pcM = "loop" /\ tokNo < MaxTokens

\* lines 83-99, the segment not full
RmSentence ==
    /\ RmMore
    /\ LET cs == conllsent(sentNo + 1)
           ts == toksent(sentNo + 1) IN
         /\ RmTake(cs, ts)
         /\ ~SegmentFull(idnum + Len(cs))
         /\ idnum' = idnum + Len(cs)
         /\ offset' = OffsetAfterTokens(cs, 1, Len(cs), offset + Len(ts[1]) + 1)
         /\ mAnn' = [mAnn EXCEPT ![segment] = AnnAfter(cs, ts)]
         /\ mTxt' = [mTxt EXCEPT ![segment] = TxtAfter(ts)]
         /\ UNCHANGED <<segment, mOpen>>

\* lines 83-108, the segment full: both files are closed and the next
\* segment's files opened
RmSentenceSwitch ==
    /\ RmMore
    /\ LET cs == conllsent(sentNo + 1)
           ts == toksent(sentNo + 1) IN
         /\ RmTake(cs, ts)
         /\ SegmentFull(idnum + Len(cs))
         /\ segment' = segment + 1
         /\ idnum' = 1
         /\ offset' = 0
         /\ mAnn' = Append([mAnn EXCEPT ![segment] = AnnAfter(cs, ts)], <<>>)
         /\ mTxt' = Append([mTxt EXCEPT ![segment] = TxtAfter(ts)], <<>>)
         /\ mOpen' = {AnnFile(segment + 1), TxtFile(segment + 1)}

\* lines 84-88: the CoNLL sentence has one token more than the text's
RmLengthMismatch ==
    /\ RmMore
    /\ LET cs == Append(conllsent(sentNo + 1), ConllTok(<<"a">>, GoodPos))
           ts == toksent(sentNo + 1) IN
         Len(cs) # Len(ts) - 1
    /\ sentNo' = sentNo + 1
    /\ pcM' = "raised"
    /\ UNCHANGED <<mPhase, tokNo, segment, idnum, offset, mAnn, mTxt, mOpen,
                   rmOthers>>

\* lines 90-95: token t raises ValueError (its POS column holds no '[', or
\* tokstr refuses its text); the records of the tokens before it are printed
RmTokenRaises ==
    /\ RmMore
    /\ \E t \in 1..SentLenOf(sentNo + 1) :
         LET cs == [conllsent(sentNo + 1) EXCEPT ![t][6] = BadPos]
             ts == toksent(sentNo + 1) IN
           /\ Len(cs) = Len(ts) - 1
           /\ PosRaises(cs[t][6]) \/ TokstrRaises(cs[t][5])
           /\ mAnn' = [mAnn EXCEPT ![segment] =
                        @ \o TokenRecords(cs, 1, t - 1,
                                          offset + Len(ts[1]) + 1, idnum,
                                          sentNo + 1)]
           /\ idnum' = idnum + (t - 1)
           /\ offset' = OffsetAfterTokens(cs, 1, t - 1,
                                          offset + Len(ts[1]) + 1)
    /\ sentNo' = sentNo + 1
    /\ pcM' = "raised"
    /\ UNCHANGED <<mPhase, tokNo, segment, mTxt, mOpen, rmOthers>>

\* lines 109-110: the document has no more sentences
RmFinish ==
    /\ pcM = "loop"
    /\ mOpen' = {}
    /\ pcM' = "done"
    /\ UNCHANGED <<mPhase, sentNo, tokNo, segment, idnum, offset, mAnn, mTxt,
                   rmOthers>>

\* lines 78-82
RmInit ==
    /\ mPhase \in 0..(MaxSentLen - 1)
    /\ sentNo = 0 /\ tokNo = 0
    /\ segment = 1 /\ idnum = 1 /\ offset = 0
    /\ mAnn = << <<>> >> /\ mTxt = << <<>> >>
    /\ mOpen = {AnnFile(1), TxtFile(1)}
    /\ pcM = "loop"

RmIdle ==
    /\ mPhase = 0 /\ sentNo = 0 /\ tokNo = 0
    /\ segment = 0 /\ idnum = 0 /\ offset = 0
    /\ mAnn = <<>> /\ mTxt = <<>> /\ mOpen = {}
    /\ pcM = "idle"

RmNext ==
    RmSentence \/ RmSentenceSwitch \/ RmLengthMismatch \/ RmTokenRaises
    \/ RmFinish

(***************************************************************************)
(* Claims about the reverse mapper                                         *)
(***************************************************************************)
Segments == 1..Len(mAnn)

\* the document has ended, or the loop is between two sentences
BetweenSentences == pcM \in {"loop", "done"}

\* the records of segment s that come from sentences before its last one
BeforeLastSentence(s) ==
    LET recs == mAnn[s] IN
    {k \in 1..Len(recs) : recs[k].sent < recs[Len(recs)].sent}

\* the ids of every segment count from 1
IdsFromOne == \A s \in Segments : \A k \in 1..Len(mAnn[s]) : mAnn[s][k].id = k

\* a segment that was closed by line 100 holds at least SegmentLimit - 1
\* ids, and held fewer before its last sentence
ClosedAtFirstFullSentence ==
    \A s \in Segments :
        s < Len(mAnn) =>
            /\ Len(mAnn[s]) >= SegmentLimit - 1
            /\ Cardinality(BeforeLastSentence(s)) < SegmentLimit - 1

\* the segment that follows starts with a later sentence
SentencesUndivided ==
    \A s \in Segments :
        (s < Len(mAnn) /\ mAnn[s + 1] # <<>>) =>
            mAnn[s + 1][1].sent > mAnn[s][Len(mAnn[s])].sent

\* between sentences the open segment is not full, and idnum and offset
\* count its records and its characters
OpenSegmentCounts ==
    pcM = "loop" =>
        /\ Len(mAnn[segment]) < SegmentLimit - 1
        /\ idnum = Len(mAnn[segment]) + 1
        /\ offset = Len(mTxt[segment])
        /\ segment = Len(mAnn)

RECURSIVE TokensBefore(_)
TokensBefore(s) == IF s = 1 THEN 0 ELSE TokensBefore(s - 1) + Len(mAnn[s - 1])

C6_NoFileLeftOpen == pcM \in {"done", "raised"} => mOpen = {}

\* C10: when the CoNLL token texts are the tokens of the tokenized file, then
\* after any number of sentences and segment switches the characters
\* [start, end) of a segment's .txt file are the text of each record of its
\* .ann file, and the ids of a segment are consecutive from 1.
C10_OffsetsMatchText ==
    BetweenSentences =>
        \A s \in Segments : \A k \in 1..Len(mAnn[s]) :
            LET r == mAnn[s][k] IN
            /\ r.id = k
            /\ r.start >= 0 /\ r.end <= Len(mTxt[s])
            /\ SubSeq(mTxt[s], r.start + 1, r.end) = r.text
            /\ r.end = r.start + Len(r.text)

\* C10 witness: three segments hold records, the second one of several
\* sentences
C10_Witness ==
    /\ pcM = "done"
    /\ segment = 3
    /\ mAnn[3] # <<>>
    /\ BeforeLastSentence(2) # {}

(***************************************************************************)
(* Specifications: one per function, the other functions' variables idle.  *)
(***************************************************************************)
InitOverlap == OvInit /\ LbIdle /\ PtIdle /\ TcIdle /\ RlIdle /\ RmIdle
NextOverlap == OvNext
SpecOverlap == InitOverlap /\ [][NextOverlap]_vars

InitLabels == LbInit /\ OvIdle /\ PtIdle /\ TcIdle /\ RlIdle /\ RmIdle
NextLabels == LbNext
SpecLabels == InitLabels /\ [][NextLabels]_vars

InitParse == PtInit /\ OvIdle /\ LbIdle /\ TcIdle /\ RlIdle /\ RmIdle
NextParse == PtNext
SpecParse == InitParse /\ [][NextParse]_vars

InitConll == TcInit /\ OvIdle /\ LbIdle /\ PtIdle /\ RlIdle /\ RmIdle
NextConll == TcNext
SpecConll == InitConll /\ [][NextConll]_vars

InitRelabel == RlInit /\ OvIdle /\ LbIdle /\ PtIdle /\ TcIdle /\ RmIdle
NextRelabel == RlNext
SpecRelabel == InitRelabel /\ [][NextRelabel]_vars

InitReverse == RmInit /\ OvIdle /\ LbIdle /\ PtIdle /\ TcIdle /\ RlIdle
NextReverse == RmNext
SpecReverse == InitReverse /\ [][NextReverse]_vars

====
